---- MODULE Spec2Model ----
(***************************************************************************)
(* Model of hsc.py, the SEO domain checker: the input parser               *)
(* (parse_input_file), the per-URL probe (check_url), the per-platform     *)
(* thread pool (check_platform_links) and the control thread (main and the *)
(* __main__ guard).                                                        *)
(*                                                                         *)
(* Python strings are sequences of one-character strings, so that strip,   *)
(* lower, startswith, split and replace are computed, not assumed.         *)
(***************************************************************************)
EXTENDS Integers, Sequences, FiniteSets, TLC

VARIABLES
    platforms_data, \* main: the parser's mapping, a sequence of [platform, links] in insertion order
    mainpc,         \* position of the control thread
    cur,            \* main: index of the platform the for loop is at
    nsub,           \* check_platform_links: how many links the comprehension has submitted
    results,        \* check_platform_links: the local dict results
    all_results,    \* main: the accumulated list
    probe,          \* per submitted link: the state of its check_url call / future
    threads,        \* per platform: worker threads its ThreadPoolExecutor has created
    interrupted,    \* a KeyboardInterrupt has been delivered to the control thread
    raised,         \* some requests.head / requests.get call of this run has raised
    exit_status,    \* process exit status, -1 while running
    consumed,       \* parse_input_file: the lines of the file read so far
    platforms,      \* parse_input_file: the dict platforms, [platform, links] in insertion order
    current_platform, \* parse_input_file: the local, None until the first header
    parsepc         \* parse_input_file: "reading" | "returned" ("idle" in a run)

vars == <<platforms_data, mainpc, cur, nsub, results, all_results, probe, threads,
          interrupted, raised, exit_status, consumed, platforms,
          current_platform, parsepc>>

runVars == <<platforms_data, mainpc, cur, nsub, results, all_results, probe, threads,
             interrupted, raised, exit_status>>
parseVars == <<consumed, platforms, current_platform, parsepc>>

----------------------------------------------------------------------------
(* Bounds of the model *)

MaxLinks == 6          \* links of a long link list
MaxPlatforms == 2      \* platforms of one run
MaxFileLines == 3      \* lines of an input file

----------------------------------------------------------------------------
(* Python str methods *)

Whitespace == {" ", "\t"}

RECURSIVE LStrip(_)
LStrip(s) == IF s # <<>> /\ Head(s) \in Whitespace THEN LStrip(Tail(s)) ELSE s

RECURSIVE RStrip(_)
RStrip(s) ==
    IF s # <<>> /\ s[Len(s)] \in Whitespace THEN RStrip(SubSeq(s, 1, Len(s) - 1)) ELSE s

\* str.strip()
Strip(s) == RStrip(LStrip(s))

Upper == <<"A", "B", "E", "H", "I", "L", "N", "P", "S", "T", "U", "V">>
LowerOf == <<"a", "b", "e", "h", "i", "l", "n", "p", "s", "t", "u", "v">>

LowerChar(c) ==
    IF \E k \in 1..Len(Upper) : Upper[k] = c
    THEN LowerOf[CHOOSE k \in 1..Len(Upper) : Upper[k] = c]
    ELSE c

\* str.lower()
Lower(s) == [k \in 1..Len(s) |-> LowerChar(s[k])]

\* str.startswith(prefix)
StartsWith(s, prefix) ==
    Len(s) >= Len(prefix) /\ SubSeq(s, 1, Len(prefix)) = prefix

\* c in s
Contains(s, c) == \E k \in 1..Len(s) : s[k] = c

\* s.split(c)[0]: everything before the first c
RECURSIVE BeforeFirst(_, _)
BeforeFirst(s, c) ==
    IF s = <<>> \/ Head(s) = c THEN <<>> ELSE <<Head(s)>> \o BeforeFirst(Tail(s), c)

\* s.replace(old, ''): leftmost non-overlapping occurrences removed
RECURSIVE Remove(_, _)
Remove(s, old) ==
    IF s = <<>> THEN <<>>
    ELSE IF StartsWith(s, old) THEN Remove(SubSeq(s, Len(old) + 1, Len(s)), old)
    ELSE <<Head(s)>> \o Remove(Tail(s), old)

----------------------------------------------------------------------------
(* check_url *)

UNAVAILABLE == <<"u", "n", "a", "v", "a", "i", "l", "a", "b", "l", "e">>
HTTP == <<"h", "t", "t", "p", ":", "/", "/">>
HTTPS == <<"h", "t", "t", "p", "s", ":", "/", "/">>

\* Mutant: the sentinel compared without strip() and lower()
IsSentinel_Exact(url) == url = UNAVAILABLE \/ url = <<>>

\* line 28: the guard of the early return
IsSentinel(url) == Lower(Strip(url)) = UNAVAILABLE \/ Strip(url) = <<>>

\* line 33: url.startswith(('http://', 'https://'))
HasProtocol(url) == StartsWith(url, HTTP) \/ StartsWith(url, HTTPS)

\* Mutant: the protocol is never prepended
WithProtocol_Unchanged(url) == url

\* lines 33-34
WithProtocol(url) == IF ~HasProtocol(url) THEN HTTPS \o url ELSE url

ErrorThreshold == 400

\* Mutant: the fallback only above 400
NeedsGet_Above(status) == status > ErrorThreshold

\* line 43: the HEAD response asks for the GET fallback
NeedsGet(status) == status >= ErrorThreshold

\* line 46: response.status_code < 400
IsActive(status) == status < ErrorThreshold

max_workers == 5

\* Mutant: a pool without a thread limit
CanSpawn_Unbounded(n) == TRUE

\* line 103: the pool creates a worker thread only below max_workers
CanSpawn(n) == n < max_workers

----------------------------------------------------------------------------
(* Inputs of a run: the parsed mapping, and how the probed hosts answer *)

A_URL == <<"a">>
K_URL == <<"k">>
PlatformNames == <<"A", "B", "C", "D">>

\* Status codes a host may answer a HEAD or a GET with. Host k is the
\* healthy host of the spec's scenarios and answers 200 whenever it answers;
\* every other host may answer any of the codes around the 400 threshold.
StatusCodes == {200, 399, 400, 404}
Answers(url) == IF url = HTTPS \o K_URL THEN {200} ELSE StatusCodes

\* The URL strings check_url is probed with
Urls ==
    { <<>>, <<" ">>, UNAVAILABLE, <<" ">> \o UNAVAILABLE \o <<"\t">>,
      <<"U", "n", "A", "v", "a", "I", "l", "a", "B", "L", "E">>,
      UNAVAILABLE \o <<"s">>,
      A_URL, K_URL, HTTP \o A_URL, HTTPS \o A_URL,
      <<"H", "T", "T", "P", "S", ":", "/", "/", "a">>,
      <<" ">> \o HTTP \o A_URL, <<"h", "t", "t", "p">> }

\* Short link lists over URLs of every kind
ShortLists ==
    { <<>>, <<UNAVAILABLE>>, <<A_URL>>, <<A_URL, HTTP \o A_URL>> }

\* Long link lists, up to beyond the pool's width, of links to host k
LongLists == { [i \in 1..n |-> K_URL] : n \in 0..MaxLinks }

LinkLists == ShortLists \cup LongLists

\* The mappings parse_input_file hands to main: distinct names in insertion
\* order; a long list is the first of two lists, the second a single
\* unavailable link
RunInputs ==
    { pd \in UNION { [1..k -> [platform : {"A", "B", "C", "D"}, links : LinkLists]] :
                     k \in 0..MaxPlatforms } :
        /\ \A p \in 1..Len(pd) : pd[p].platform = PlatformNames[p]
        /\ \A p \in 2..Len(pd) : pd[p].links \in ShortLists
        /\ pd # <<>> /\ pd[1].links \notin ShortLists
             => Len(pd) = 2 /\ pd[2].links = <<UNAVAILABLE>> }

\* One platform with one link, for every URL string
ProbeInputs == { <<[platform |-> "A", links |-> <<u>>]>> : u \in Urls }

\* One check_url call per link: <<p, i>> is link i of platform p
Slots(pd) == UNION { { <<p, i>> : i \in 1..Len(pd[p].links) } : p \in 1..Len(pd) }

\* A check_url call and its future: pc is "new" (not submitted), "queued",
\* "head" / "get" (that request is out), "done" (returned, the future holds
\* (url, is_active)) or "collected" (as_completed has yielded it). sent lists
\* the requests issued, response is the last status received (0: none),
\* raised tells that the except clause ran.
NewProbe(link) ==
    [pc |-> "new", url |-> link, sent |-> <<>>, response |-> 0, is_active |-> FALSE,
     raised |-> FALSE]
CollectedProbe ==
    [pc |-> "collected", url |-> <<>>, sent |-> <<>>, response |-> 0,
     is_active |-> FALSE, raised |-> FALSE]

NoResults == [platform |-> "", total |-> 0, active |-> 0, error |-> 0, links |-> <<>>]

None == <<"None">>

ParserIdle ==
    /\ consumed = <<>>
    /\ platforms = <<>>
    /\ current_platform = None
    /\ parsepc = "idle"

InitRunWith(pd) ==
    /\ platforms_data = pd
    /\ mainpc = "start"
    /\ cur = 1
    /\ nsub = 0
    /\ results = NoResults
    /\ all_results = <<>>
    /\ probe = [s \in Slots(pd) |-> NewProbe(pd[s[1]].links[s[2]])]
    /\ threads = [p \in 1..Len(pd) |-> 0]
    /\ interrupted = FALSE
    /\ raised = FALSE
    /\ exit_status = -1
    /\ ParserIdle

InitRun == \E pd \in RunInputs \cup ProbeInputs : InitRunWith(pd)

----------------------------------------------------------------------------
(* The worker threads of a platform's pool. The executor keeps at most      *)
(* max_workers threads; each takes the oldest queued item, runs check_url    *)
(* on it and comes back for the next. A thread is added at every submit      *)
(* below the limit, which allows at least the concurrency the executor's     *)
(* reuse of idle threads allows.                                             *)

NP == Len(platforms_data)
Links(p) == platforms_data[p].links
InFlight(p) == { s \in DOMAIN probe : s[1] = p /\ probe[s].pc \in {"head", "get"} }
Queued(p) == { s \in DOMAIN probe : s[1] = p /\ probe[s].pc = "queued" }

\* Mutant: a worker thread that ends after its first item
FreeWorker_Once(p) ==
    Cardinality({ s \in DOMAIN probe : s[1] = p /\ probe[s].pc \notin {"new", "queued"} })
        < threads[p]

\* lines 103-104: a worker thread runs one item at a time and then returns
\* to the queue
FreeWorker(p) == Cardinality(InFlight(p)) < threads[p]

\* The work queue is FIFO: the next item is the oldest queued one, and it is
\* taken by a worker thread that is not running an item.
NextItem(s) ==
    /\ probe[s].pc = "queued"
    /\ \A t \in Queued(s[1]) : s[2] <= t[2]
    /\ FreeWorker(s[1])

\* check_url returns: the work item sets its future's result and the worker
\* goes back to the queue
Finish(s, active, resp, exc) ==
    probe' = [probe EXCEPT ![s].pc = "done", ![s].response = resp,
                           ![s].is_active = active, ![s].raised = exc]

\* Mutant: the except clause reports the URL as live
OnException_Active == TRUE

\* lines 48-49: what the except clause returns as is_active
OnException == FALSE

\* lines 28-29: the sentinel and the empty URL return at once
SkipProbe(s) ==
    /\ NextItem(s)
    /\ IsSentinel(probe[s].url)
    /\ Finish(s, FALSE, 0, FALSE)
    /\ UNCHANGED <<platforms_data, mainpc, cur, nsub, results, all_results, threads,
                   interrupted, raised, exit_status, parseVars>>

\* lines 31-40: the protocol is prepended and the HEAD request goes out
IssueHead(s) ==
    /\ NextItem(s)
    /\ ~IsSentinel(probe[s].url)
    /\ probe' = [probe EXCEPT ![s].pc = "head", ![s].url = WithProtocol(probe[s].url),
                              ![s].sent = <<"HEAD">>]
    /\ UNCHANGED <<platforms_data, mainpc, cur, nsub, results, all_results, threads, interrupted, raised, exit_status, parseVars>>

\* lines 40-46: the HEAD response arrives; >= 400 sends the GET, else return
HeadResponse(s, status) ==
    /\ probe[s].pc = "head"
    /\ IF NeedsGet(status)
       THEN probe' = [probe EXCEPT ![s].pc = "get", ![s].response = status,
                                   ![s].sent = Append(@, "GET")]
       ELSE Finish(s, IsActive(status), status, FALSE)
    /\ UNCHANGED <<platforms_data, mainpc, cur, nsub, results, all_results, threads,
                   interrupted, raised, exit_status, parseVars>>

\* lines 44-46: the GET response arrives
GetResponse(s, status) ==
    /\ probe[s].pc = "get"
    /\ Finish(s, IsActive(status), status, FALSE)
    /\ UNCHANGED <<platforms_data, mainpc, cur, nsub, results, all_results, threads,
                   interrupted, raised, exit_status, parseVars>>

\* lines 48-49: requests.head or requests.get raises: no response
RequestRaises(s) ==
    /\ probe[s].pc \in {"head", "get"}
    /\ Finish(s, OnException, 0, TRUE)
    /\ raised' = TRUE
    /\ UNCHANGED <<platforms_data, mainpc, cur, nsub, results, all_results, threads,
                   interrupted, exit_status, parseVars>>

Worker ==
    \/ \E s \in DOMAIN probe : SkipProbe(s)
    \/ \E s \in DOMAIN probe : IssueHead(s)
    \/ \E s \in DOMAIN probe : \E status \in Answers(probe[s].url) : HeadResponse(s, status)
    \/ \E s \in DOMAIN probe : \E status \in Answers(probe[s].url) : GetResponse(s, status)
    \/ \E s \in DOMAIN probe : RequestRaises(s)

----------------------------------------------------------------------------
(* The control thread: main, check_platform_links, the __main__ guard *)

\* lines 206-208
NoData ==
    /\ mainpc = "start"
    /\ platforms_data = <<>>
    /\ mainpc' = "exited"
    /\ exit_status' = 1
    /\ UNCHANGED <<platforms_data, cur, nsub, results, all_results, probe, threads, interrupted, raised, parseVars>>

\* lines 210-215
StartLoop ==
    /\ mainpc = "start"
    /\ platforms_data # <<>>
    /\ mainpc' = "loop"
    /\ UNCHANGED <<platforms_data, cur, nsub, results, all_results, probe, threads, interrupted, raised, exit_status, parseVars>>

\* lines 215-216, 93-103: the next platform's call begins
BeginPlatform ==
    /\ mainpc = "loop"
    /\ cur <= NP
    /\ results' = [platform |-> platforms_data[cur].platform,
                   total |-> Len(Links(cur)), active |-> 0, error |-> 0, links |-> <<>>]
    /\ nsub' = 0
    /\ mainpc' = IF Links(cur) = <<>> THEN "collect" ELSE "submit"
    /\ UNCHANGED <<platforms_data, cur, all_results, probe, threads,
                   interrupted, raised, exit_status, parseVars>>

\* line 104: executor.submit of the next link; the pool adds a worker thread
\* while it has fewer than max_workers
Submit ==
    /\ mainpc = "submit"
    /\ nsub < Len(Links(cur))
    /\ probe' = [probe EXCEPT ![<<cur, nsub + 1>>].pc = "queued"]
    /\ nsub' = nsub + 1
    /\ threads' = [threads EXCEPT ![cur] = IF CanSpawn(@) THEN @ + 1 ELSE @]
    /\ mainpc' = IF nsub + 1 = Len(Links(cur)) THEN "collect" ELSE "submit"
    /\ UNCHANGED <<platforms_data, cur, results, all_results, interrupted, raised,
                   exit_status, parseVars>>

\* Mutant: the error branch forgets its counter
Tally_NoErrorCount(r, url, is_active) ==
    [r EXCEPT !.active = IF is_active THEN @ + 1 ELSE @,
              !.links = Append(@, [url |-> url,
                                   status |-> IF is_active THEN "active" ELSE "error"])]

\* lines 109-119: the record after one more (url, is_active)
Tally(r, url, is_active) ==
    [r EXCEPT !.active = IF is_active THEN @ + 1 ELSE @,
              !.error = IF is_active THEN @ ELSE @ + 1,
              !.links = Append(@, [url |-> url,
                                   status |-> IF is_active THEN "active" ELSE "error"])]

\* lines 106-119: as_completed yields a finished future
Collect(s) ==
    /\ mainpc = "collect"
    /\ s[1] = cur
    /\ probe[s].pc = "done"
    /\ results' = Tally(results, probe[s].url, probe[s].is_active)
    /\ probe' = [probe EXCEPT ![s] = CollectedProbe]
    /\ UNCHANGED <<platforms_data, mainpc, cur, nsub, all_results, threads,
                   interrupted, raised, exit_status, parseVars>>

\* line 106: as_completed has yielded every future
Exhausted(p) == \A s \in DOMAIN probe : s[1] = p => probe[s].pc = "collected"

\* Mutant: the pool is shut down without waiting
PoolJoined_NoWait(p) == TRUE

\* line 103: the with block's exit, shutdown(wait=True), joins the workers,
\* which first drain the queue
PoolJoined(p) == InFlight(p) = {} /\ Queued(p) = {}

\* Mutant: the call returns without collecting or waiting
CallComplete_Early(p) == TRUE

\* lines 106-120: the call leaves the with block once as_completed is
\* exhausted and the pool is shut down
CallComplete(p) == Exhausted(p) /\ PoolJoined(p)

\* line 217
Accumulate(all, r) == Append(all, r)

\* lines 120-122, 217: the pool is shut down, the record returned and appended
Return ==
    /\ mainpc = "collect"
    /\ CallComplete(cur)
    /\ all_results' = Accumulate(all_results, results)
    /\ results' = NoResults
    /\ mainpc' = "sleep"
    /\ UNCHANGED <<platforms_data, cur, nsub, probe, threads, interrupted,
                   raised, exit_status, parseVars>>

\* line 218, and the for loop moving on
Sleep ==
    /\ mainpc = "sleep"
    /\ cur' = cur + 1
    /\ mainpc' = "loop"
    /\ UNCHANGED <<platforms_data, nsub, results, all_results, probe, threads,
                   interrupted, raised, exit_status, parseVars>>

\* lines 221-232: the loop is over; report, prompt, and the implicit exit 0
Report ==
    /\ mainpc = "loop"
    /\ cur > NP
    /\ mainpc' = "exited"
    /\ exit_status' = 0
    /\ UNCHANGED <<platforms_data, cur, nsub, results, all_results, probe, threads, interrupted, raised, parseVars>>

\* lines 237-239: KeyboardInterrupt reaches the control thread. Inside the
\* with block it first unwinds through the executor's exit.
Interrupt ==
    /\ ~interrupted
    /\ mainpc \in {"loop", "submit", "collect", "sleep"}
    /\ interrupted' = TRUE
    /\ IF mainpc \in {"submit", "collect"}
       THEN mainpc' = "unwind" /\ exit_status' = exit_status
       ELSE mainpc' = "exited" /\ exit_status' = 0
    /\ UNCHANGED <<platforms_data, cur, nsub, results, all_results, probe, threads, raised, parseVars>>

\* lines 103, 237-239: the executor's exit has joined its workers; the
\* handler exits 0
Unwound ==
    /\ mainpc = "unwind"
    /\ PoolJoined(cur)
    /\ mainpc' = "exited"
    /\ exit_status' = 0
    /\ UNCHANGED <<platforms_data, cur, nsub, results, all_results, probe, threads, interrupted, raised, parseVars>>

Main ==
    \/ NoData
    \/ StartLoop
    \/ BeginPlatform
    \/ Submit
    \/ \E s \in DOMAIN probe : Collect(s)
    \/ Return
    \/ Sleep
    \/ Report

Next == Worker \/ Main \/ Interrupt \/ Unwound

Spec == InitRun /\ [][Next]_vars

\* A run no interrupt arrives in. The pool's threads and the control thread
\* are scheduled and every request returns or raises (the timeout): the run
\* does not stop while one of them has a step to take.
NextLive == Worker \/ Main
LiveInputs ==
    { pd \in RunInputs : Len(pd) <= 1 \/ pd[1].links \notin ShortLists }
InitLive == \E pd \in LiveInputs : InitRunWith(pd)
LiveSpec == InitLive /\ [][NextLive]_vars /\ WF_vars(NextLive)

----------------------------------------------------------------------------
(* parse_input_file *)

GT == <<">">>
\* The triple backtick; a TLA+ string cannot hold a backtick, written ^ here
BACKTICKS == <<"^", "^", "^">>

\* The raw lines an input file is made of
FileLines ==
    { <<>>, <<" ">>,
      <<"a", ":">>, <<"b", " ", ":", " ", "2">>, <<"a", " ", ":", "b", ":">>,
      <<":">>, <<" ", ":", " ", "1">>,
      <<">", " ", "a">>, <<">", "a", " ", "b">>, <<" ", ">", " ", "a", " ">>,
      <<">">>, <<">", " ">>, <<">", ":">>,
      <<">", " ">> \o BACKTICKS \o <<"a">> \o BACKTICKS,
      <<">">> \o BACKTICKS \o BACKTICKS,
      <<">", " ">> \o BACKTICKS \o <<" ">> \o BACKTICKS,
      <<"a">>, <<"a", ">">> }

\* line 68
IsPlatformLine(line) == Contains(line, ":") /\ ~StartsWith(line, GT)

\* line 69
PlatformName(line) == Strip(BeforeFirst(line, ":"))

\* line 74: the test of current_platform is Python truthiness: neither None
\* nor the empty string
IsSet(name) == name # None /\ name # <<>>

\* Mutant: the backticks are removed after the last strip()
LinkText_StripFirst(line) == Remove(Strip(Strip(Tail(line))), BACKTICKS)

\* line 76
LinkText(line) == Strip(Remove(Strip(Tail(line)), BACKTICKS))

HasKey(dict, name) == \E k \in 1..Len(dict) : dict[k].platform = name

\* line 71: platforms[name] = []; a present key keeps its place
SetEmpty(dict, name) ==
    IF HasKey(dict, name)
    THEN [k \in 1..Len(dict) |->
             IF dict[k].platform = name THEN [dict[k] EXCEPT !.links = <<>>] ELSE dict[k]]
    ELSE Append(dict, [platform |-> name, links |-> <<>>])

\* line 78: platforms[name].append(link)
AppendLink(dict, name, link) ==
    [k \in 1..Len(dict) |->
        IF dict[k].platform = name THEN [dict[k] EXCEPT !.links = Append(@, link)]
        ELSE dict[k]]

InitParse ==
    /\ consumed = <<>>
    /\ platforms = <<>>
    /\ current_platform = None
    /\ parsepc = "reading"
    /\ platforms_data = <<>>
    /\ mainpc = "parsing"
    /\ cur = 1
    /\ nsub = 0
    /\ results = NoResults
    /\ all_results = <<>>
    /\ probe = <<>>
    /\ threads = <<>>
    /\ interrupted = FALSE
    /\ raised = FALSE
    /\ exit_status = -1

\* lines 60-78: one iteration of the loop over the file's lines
ReadLine(raw) ==
    /\ parsepc = "reading"
    /\ Len(consumed) < MaxFileLines
    /\ consumed' = Append(consumed, raw)
    /\ LET line == Strip(raw) IN
       IF line = <<>>
       THEN UNCHANGED <<platforms, current_platform>>
       ELSE IF IsPlatformLine(line)
       THEN /\ current_platform' = PlatformName(line)
            /\ platforms' = SetEmpty(platforms, PlatformName(line))
       ELSE IF StartsWith(line, GT) /\ IsSet(current_platform)
       THEN /\ platforms' = IF LinkText(line) # <<>>
                            THEN AppendLink(platforms, current_platform, LinkText(line))
                            ELSE platforms
            /\ UNCHANGED current_platform
       ELSE UNCHANGED <<platforms, current_platform>>
    /\ UNCHANGED <<parsepc, runVars>>

\* line 80: the file is exhausted and the mapping returned
EndOfFile ==
    /\ parsepc = "reading"
    /\ parsepc' = "returned"
    /\ UNCHANGED <<consumed, platforms, current_platform, runVars>>

NextParse == (\E raw \in FileLines : ReadLine(raw)) \/ EndOfFile

SpecParse == InitParse /\ [][NextParse]_vars

----------------------------------------------------------------------------
(* Properties *)

AllEntries ==
    UNION { { r.links[k] : k \in 1..Len(r.links) } :
            r \in {results} \cup { all_results[k] : k \in 1..Len(all_results) } }

\* C1: every record check_platform_links has returned satisfies
\* active + error = total = len(links), total being the length of the URL list
\* it was called with, whatever the list (empty, longer than the pool is wide)
\* and whatever the order the probes completed in.
C1_RecordCountsAddUp ==
    \A k \in 1..Len(all_results) :
        /\ all_results[k].active + all_results[k].error = all_results[k].total
        /\ all_results[k].total = Len(all_results[k].links)
        /\ all_results[k].total = Len(platforms_data[k].links)

\* A returned record of a list longer than the pool is wide, with active and
\* error links
C1_Witness ==
    \E k \in 1..Len(all_results) :
        /\ all_results[k].total > max_workers
        /\ all_results[k].active > 0
        /\ all_results[k].error > 0
        /\ all_results[k].links[1].status = "error"
        /\ all_results[k].links[2].status = "active"

\* C8: at most 5 check_url calls are between their start and their return at
\* any time, whatever the number of URLs.
C8_AtMostFiveInFlight ==
    Cardinality({ s \in DOMAIN probe : probe[s].pc \in {"head", "get"} }) <= 5

\* Five probes in flight and a sixth waiting in the queue
C8_Witness ==
    /\ Cardinality({ s \in DOMAIN probe : probe[s].pc \in {"head", "get"} }) = 5
    /\ \E s \in DOMAIN probe : probe[s].pc = "queued"

Link(s) == platforms_data[s[1]].links[s[2]]

\* Empty after trimming, or 'unavailable' after trimming and lower-casing
Unprobed(url) == Strip(url) = <<>> \/ Lower(Strip(url)) = UNAVAILABLE

Prefixed(url) == StartsWith(url, HTTP) \/ StartsWith(url, HTTPS)

\* C3: for a URL that is neither empty nor the sentinel, check_url issues one
\* HEAD request first, issues a GET afterwards if and only if the HEAD status
\* is >= 400, and classifies Active if and only if the status of the last
\* response received is < 400.
C3_HeadThenGetFallback ==
    [][\A s \in DOMAIN probe :
        probe'[s] # probe[s] /\ ~Unprobed(Link(s)) =>
          /\ probe[s].pc = "queued" /\ probe'[s].pc # "queued"
                => probe'[s].pc = "head" /\ probe'[s].sent = <<"HEAD">>
          /\ probe[s].pc = "head" /\ probe'[s].pc = "get"
                => probe'[s].response >= 400 /\ probe'[s].sent = <<"HEAD", "GET">>
          /\ probe[s].pc = "head" /\ probe'[s].pc = "done" /\ ~probe'[s].raised
                => probe'[s].response < 400 /\ probe'[s].sent = <<"HEAD">>
          /\ probe[s].pc \in {"head", "get"} /\ probe'[s].pc = "done" /\ ~probe'[s].raised
                => (probe'[s].is_active <=> probe'[s].response < 400)
          /\ probe[s].pc = "get" => probe'[s].pc \in {"get", "done"}
          /\ probe[s].pc \in {"head", "get"} => probe'[s].sent \in {probe[s].sent, <<"HEAD", "GET">>}
      ]_vars

\* HEAD was answered >= 400, the GET 200, and the URL is Active
C3_Witness ==
    \E s \in DOMAIN probe :
        /\ probe[s].pc = "done"
        /\ probe[s].sent = <<"HEAD", "GET">>
        /\ probe[s].response = 200
        /\ probe[s].is_active

\* C4: no HEAD or GET request is ever issued for a URL that is empty after
\* trimming or 'unavailable' after trimming and lower-casing, and every such
\* URL is classified Error.
C4_SentinelNeverProbed ==
    /\ \A s \in DOMAIN probe :
          \/ /\ probe[s].pc \notin {"head", "get"}
             /\ probe[s].sent = <<>>
             /\ probe[s].pc = "done" => ~probe[s].is_active /\ probe[s].url = Link(s)
          \/ ~Unprobed(Link(s))
    /\ \A e \in AllEntries : e.status = "error" \/ ~Unprobed(e.url)

\* The sentinel in mixed case between whitespace has got its LinkResult
C4_Witness ==
    \E k \in 1..Len(all_results) :
        /\ platforms_data[k].links = << <<" ">> \o UNAVAILABLE \o <<"\t">> >>
        /\ all_results[k].links = << [url |-> <<" ">> \o UNAVAILABLE \o <<"\t">>,
                                      status |-> "error"] >>

\* C5: a HEAD or GET that raises classifies its URL Error and goes no
\* further: every other URL of the platform still gets its LinkResult, every
\* remaining platform is checked, and the process does not exit with status 1
\* because of it.
C5_ProbeFailureAbsorbed ==
    /\ \A s \in DOMAIN probe : probe[s].raised => probe[s].pc = "done" /\ ~probe[s].is_active
    /\ exit_status = 1 => platforms_data = <<>>
    /\ raised /\ mainpc = "exited" /\ ~interrupted
          => /\ exit_status = 0
             /\ Len(all_results) = Len(platforms_data)
             /\ \A k \in 1..Len(all_results) :
                   Len(all_results[k].links) = Len(platforms_data[k].links)

\* A request raised in the first platform; its other links were classified,
\* the second platform was checked and the run ended with status 0
C5_Witness ==
    /\ raised /\ mainpc = "exited" /\ ~interrupted /\ exit_status = 0
    /\ Len(all_results) = 2
    /\ all_results[1].total > max_workers
    /\ all_results[1].error = 1
    /\ all_results[1].active = all_results[1].total - 1
    /\ all_results[2].total = 1

\* C6 as stated: the url of every LinkResult starts with http:// or https://.
C6_Original == \A e \in AllEntries : Prefixed(e.url)

\* The url a LinkResult is to hold for an input URL
StoredUrl(link) ==
    IF Unprobed(link) THEN link ELSE IF Prefixed(link) THEN link ELSE HTTPS \o link

\* C6, amended: for an input URL that is neither empty after trimming nor the
\* sentinel, the url of its LinkResult is the input when the input starts with
\* http:// or https://, and https:// followed by the input otherwise; for an
\* empty or 'unavailable' input it is the input unchanged, without a protocol.
C6_StoredUrl ==
    [][\A s \in DOMAIN probe :
        probe[s].pc = "done" /\ probe'[s].pc = "collected"
           => /\ Len(results'.links) = Len(results.links) + 1
              /\ results'.links[Len(results'.links)].url = StoredUrl(Link(s))
              /\ ~Unprobed(Link(s)) => Prefixed(results'.links[Len(results'.links)].url)
      ]_vars

\* A link without a protocol is stored with https:// prepended
C6_Witness ==
    \E k \in 1..Len(all_results) :
        /\ platforms_data[k].links = <<A_URL>>
        /\ all_results[k].links[1].url = HTTPS \o A_URL

\* C7 as stated: once the interrupt has arrived during a platform's probes,
\* the process is gone at once: no probe is started or completed any more and
\* the only step left is the exit with status 0.
C7_Original ==
    [][interrupted /\ mainpc = "unwind"
          => probe' = probe /\ mainpc' = "exited" /\ exit_status' = 0]_vars

\* C7, amended: when the interrupt arrives during a platform's probes the
\* process exits with status 0, but only after the executor's exit has waited
\* for every in-flight probe and has run every queued probe of that platform
\* to completion; links not yet submitted and later platforms are never
\* probed, and the platform's record (still the call's local, results) is
\* not appended.
C7_ExitAfterPoolDrained ==
    /\ mainpc = "unwind" => exit_status = -1
    /\ interrupted /\ mainpc = "exited"
          => /\ exit_status = 0
             /\ \A s \in DOMAIN probe :
                   /\ probe[s].pc \notin {"queued", "head", "get"}
                   /\ s[1] > cur => probe[s].pc = "new"
                   /\ s[1] = cur /\ s[2] > nsub => probe[s].pc = "new"
             /\ results # NoResults => Len(all_results) = cur - 1

\* Interrupted while the six links were submitted and none collected: the
\* process has exited 0 with all six probes run
C7_Witness ==
    /\ interrupted /\ mainpc = "exited" /\ exit_status = 0
    /\ results.total > max_workers
    /\ nsub = results.total
    /\ results.links = <<>>
    /\ \A s \in DOMAIN probe : s[1] = cur => probe[s].pc = "done"

\* C9: platforms are checked one after the other in the parser's order: a
\* probe of a platform leaves the "new" state only when every probe of every
\* earlier platform has completed and the earlier platforms' records are in
\* the result list, so probes of two platforms are never in flight together,
\* and the result list holds the platforms in parser order.
C9_PlatformsSequential ==
    /\ \A s \in DOMAIN probe :
          probe[s].pc # "new" =>
             /\ Len(all_results) >= s[1] - 1
             /\ \A t \in DOMAIN probe : t[1] < s[1] => probe[t].pc = "collected"
    /\ Cardinality({ p \in 1..Len(platforms_data) : InFlight(p) # {} }) <= 1
    /\ Len(all_results) <= Len(platforms_data)
    /\ \A k \in 1..Len(all_results) : all_results[k].platform = platforms_data[k].platform

\* A probe of the second platform is in flight after a first platform of two
\* links
C9_Witness ==
    /\ Len(platforms_data) = 2
    /\ Len(platforms_data[1].links) = 2
    /\ <<2, 1>> \in DOMAIN probe
    /\ probe[<<2, 1>>].pc = "head"
    /\ Len(all_results) = 1

\* C10: with every request returning or raising and no interrupt, every call
\* of check_platform_links returns, whatever the number of URLs: every
\* submitted probe, those queued behind the 5 workers too, is started and
\* completed, and the call returns only after all of them have.
C10_CallReturns ==
    /\ mainpc \in {"submit", "collect"} ~> mainpc = "sleep"
    /\ [][mainpc = "collect" /\ mainpc' = "sleep"
             => \A s \in DOMAIN probe : s[1] = cur => probe[s].pc = "collected"]_vars

\* The call for a list longer than the pool is wide has returned
C10_Witness ==
    /\ ~interrupted
    /\ Len(all_results) >= 1
    /\ all_results[1].total > max_workers
    /\ Len(all_results[1].links) = all_results[1].total

\* The file read, line by line, as the claim sees it
HeaderAt(k) == Contains(Strip(consumed[k]), ":") /\ ~StartsWith(Strip(consumed[k]), GT)
NameAt(k) == Strip(BeforeFirst(Strip(consumed[k]), ":"))
GtAt(k) == StartsWith(Strip(consumed[k]), GT)
\* What a '>' line holds once the '>', the surrounding whitespace and the
\* triple backticks are removed
ContentAt(k) == Strip(Remove(Strip(Tail(Strip(consumed[k]))), BACKTICKS))

\* The last header line that names the platform
LastHeader(name) ==
    CHOOSE k \in 1..Len(consumed) :
        /\ HeaderAt(k) /\ NameAt(k) = name
        /\ \A j \in k + 1..Len(consumed) : ~(HeaderAt(j) /\ NameAt(j) = name)

\* The lines after header k and before the next header
Section(k) ==
    { j \in k + 1..Len(consumed) : \A i \in k + 1..j : ~HeaderAt(i) }

\* C2 as stated: the length of a platform's URL list is the number of lines
\* starting with '>' between its header line and the next header line.
C2_Original ==
    parsepc = "returned" =>
        \A p \in 1..Len(platforms) :
            Len(platforms[p].links) =
                Cardinality({ j \in Section(LastHeader(platforms[p].platform)) : GtAt(j) })

\* C2, amended: the length of a platform's URL list is the number of lines
\* between the last header line with that platform's name and the next header
\* line that start with '>' and still hold text once the '>', the surrounding
\* whitespace and the triple backticks are removed; under a header whose name
\* is empty the list stays empty.
C2_CountsNonEmptyLinks ==
    parsepc = "returned" =>
        /\ \A p \in 1..Len(platforms) :
              \E k \in 1..Len(consumed) : HeaderAt(k) /\ NameAt(k) = platforms[p].platform
        /\ \A p \in 1..Len(platforms) :
              Len(platforms[p].links) =
                 IF platforms[p].platform = <<>> THEN 0
                 ELSE Cardinality({ j \in Section(LastHeader(platforms[p].platform)) :
                                       GtAt(j) /\ ContentAt(j) # <<>> })

\* A platform with a link and, after it, a '>' line that holds nothing
C2_Witness ==
    /\ parsepc = "returned"
    /\ \E p \in 1..Len(platforms) :
          /\ Len(platforms[p].links) = 1
          /\ Cardinality({ j \in Section(LastHeader(platforms[p].platform)) : GtAt(j) }) = 2

====
